---- MODULE Spec2Model ----
(***************************************************************************)
(* Icon library deduplicator: the grouper, the exact-duplicate resolver    *)
(* (processIconGroups), the visual-duplicate resolver                      *)
(* (processVisualDeduplication), the two deletion passes and the marking   *)
(* consumer of the design-tool plugin.                                     *)
(*                                                                         *)
(* A file name is a sequence of tokens (<<"add", ".svg">> is add.svg), so  *)
(* that endsWith, basename and the `${iconName}.svg` template are real     *)
(* operations on names.  A path below ICON_DIR is <<style, file name>>.    *)
(* A JavaScript object is the sequence of its own <<key, value>> pairs in  *)
(* OwnPropertyKeys order.                                                  *)
(***************************************************************************)
EXTENDS Integers, Sequences, FiniteSets, TLC

VARIABLES
    dirs,          \* ICON_DIR: style -> the directory (its entries in listing order)
    reportFile,    \* dedup-report.json: whether it exists, and its JSON text
    visualFile,    \* visual-dedup-report.json, likewise
    pipeline,      \* the strategy run on this tree: "exact" or "visual"
    out,           \* what the last script run did (console statistics, or the abort)
    stage,         \* the runs since the tree or the report last changed hands: "start",
                   \* "reported" (a resolver run completed on the current tree),
                   \* "reported twice", "deleted" (the deletion pass applied that
                   \* report), "deleted twice"
    treeAtRun,     \* the tree the last completed resolver run has read
    page           \* figma.currentPage: the nodes of the design file's page

vars == <<dirs, reportFile, visualFile, pipeline, out, stage, treeAtRun, page>>

-----------------------------------------------------------------------------
(* Bounds of the model *)

\* The most files in a tree at the start; k files hold at most k contents.
MaxFiles == 4

\* The most files in a tree handed to groupIconsByName alone
MaxListed == 3

\* The most Decisions in an array-shaped entry of a report written by hand
MaxItems == 2

\* The most children of a component set of the page
MaxChildren == 2

-----------------------------------------------------------------------------
(* Constants of the program *)

STYLES == <<"outlined", "filled", "sharp", "round">>

StyleSet == {STYLES[i] : i \in DOMAIN STYLES}

StyleIndex(style) == CHOOSE i \in DOMAIN STYLES : STYLES[i] = style

DotSvg == ".svg"

\* A directory that does not exist, and a file that does not exist
NoDir == [exists |-> FALSE, entries |-> <<>>]
NoFile == [exists |-> FALSE, text |-> <<>>]

\* File names that occur in the style directories of the model, in name order.
NameOrder == << <<"360", ".svg">>, <<"add", ".png">>, <<"add", ".svg">>, <<"constructor", ".svg">> >>

FileNames == {NameOrder[i] : i \in DOMAIN NameOrder}

SvgNames == {f \in FileNames : f[Len(f)] = DotSvg}

Contents == 1..MaxFiles

-----------------------------------------------------------------------------
(* Sequences *)

Range(s) == {s[i] : i \in DOMAIN s}

RECURSIVE Perms(_)
Perms(S) ==
    IF S = {} THEN {<<>>}
    ELSE UNION {{<<x>> \o p : p \in Perms(S \ {x})} : x \in S}

Remove(s, i) == SubSeq(s, 1, i - 1) \o SubSeq(s, i + 1, Len(s))

InsertAt(s, i, x) == SubSeq(s, 1, i - 1) \o <<x>> \o SubSeq(s, i, Len(s))

Includes(s, x) == \E i \in DOMAIN s : s[i] = x

-----------------------------------------------------------------------------
(* JavaScript objects: own properties in OwnPropertyKeys order *)

\* Property names that are canonical array indices, with their numeric value.
ArrayIndexValue == (<<"360">> :> 360) @@ (<<"3", "6", "0">> :> 360)

IsArrayIndex(k) == k \in DOMAIN ArrayIndexValue

\* Names every object literal inherits from Object.prototype.
ObjectPrototypeKeys ==
    { <<"constructor">>, <<"__proto__">>, <<"toString">>, <<"valueOf">>,
      <<"hasOwnProperty">>, <<"isPrototypeOf">>, <<"toLocaleString">>,
      <<"propertyIsEnumerable">> }

KeyIndex(o, k) ==
    IF \E i \in DOMAIN o : o[i][1] = k
    THEN CHOOSE i \in DOMAIN o : o[i][1] = k
    ELSE 0

HasOwn(o, k) == KeyIndex(o, k) # 0

Get(o, k) == o[KeyIndex(o, k)][2]

Keys(o) == [i \in DOMAIN o |-> o[i][1]]

Values(o) == [i \in DOMAIN o |-> o[i][2]]

\* o[k] = v for a key that is never an array index (a style, a digest).
Put(o, k, v) ==
    IF HasOwn(o, k) THEN [o EXCEPT ![KeyIndex(o, k)] = <<k, v>>]
    ELSE Append(o, <<k, v>>)

\* o[k] = v for a key taken from a file name: array indices come first, ascending.
PutName(o, k, v) ==
    IF HasOwn(o, k) THEN [o EXCEPT ![KeyIndex(o, k)] = <<k, v>>]
    ELSE IF IsArrayIndex(k)
    THEN LET smaller == {i \in DOMAIN o : IsArrayIndex(o[i][1])
                                          /\ ArrayIndexValue[o[i][1]] < ArrayIndexValue[k]}
         IN InsertAt(o, Cardinality(smaller) + 1, <<k, v>>)
    ELSE Append(o, <<k, v>>)

\* The truthiness of o[k] where every own value is an object: an inherited
\* property (Object.prototype.constructor, ...) is found too.
Truthy(o, k) == HasOwn(o, k) \/ k \in ObjectPrototypeKeys

-----------------------------------------------------------------------------
(* The file system below ICON_DIR *)

DirExists(d, style) == style \in DOMAIN d /\ d[style].exists

\* fs.readdirSync(dir): the names in listing order
ReaddirSync(d, style) == [i \in DOMAIN d[style].entries |-> d[style].entries[i].name]

\* fs.existsSync(path)
ExistsSync(d, p) ==
    DirExists(d, p[1]) /\ \E i \in DOMAIN d[p[1]].entries : d[p[1]].entries[i].name = p[2]

\* fs.readFileSync(path), for a path that exists
ReadFileSync(d, p) ==
    LET i == CHOOSE i \in DOMAIN d[p[1]].entries : d[p[1]].entries[i].name = p[2]
    IN d[p[1]].entries[i].bytes

\* fs.unlinkSync(path), for a path that exists
UnlinkSync(d, p) ==
    LET i == CHOOSE i \in DOMAIN d[p[1]].entries : d[p[1]].entries[i].name = p[2]
    IN [d EXCEPT ![p[1]].entries = Remove(@, i)]

AllFiles(d) == {p \in StyleSet \X FileNames : ExistsSync(d, p)}

-----------------------------------------------------------------------------
(* groupIconsByName *)

\* Seeded fault: any file name taken for an icon
EndsWithAny(file, ext) == Len(file) > 0

\* String.prototype.endsWith
EndsWith(file, ext) == Len(file) > 0 /\ file[Len(file)] = ext

\* path.basename(file, ext) of a name that ends with ext
Basename(file, ext) == SubSeq(file, 1, Len(file) - 1)

RECURSIVE GroupFiles(_, _, _, _)
GroupFiles(groups, style, files, i) ==
    IF i > Len(files) THEN groups
    ELSE IF ~EndsWith(files[i], DotSvg) THEN GroupFiles(groups, style, files, i + 1)
    ELSE LET iconName == Basename(files[i], DotSvg)
             g1 == IF ~Truthy(groups, iconName) THEN PutName(groups, iconName, <<>>)
                   ELSE groups
             \* groups[iconName][style] = path: lands on the own entry, or on
             \* the inherited object when the name is not an own key
             g2 == IF HasOwn(g1, iconName)
                   THEN PutName(g1, iconName,
                                Put(Get(g1, iconName), style, <<style, files[i]>>))
                   ELSE g1
         IN GroupFiles(g2, style, files, i + 1)

RECURSIVE GroupStyles(_, _, _)
GroupStyles(groups, d, s) ==
    IF s > Len(STYLES) THEN groups
    ELSE IF ~DirExists(d, STYLES[s]) THEN GroupStyles(groups, d, s + 1)
    ELSE GroupStyles(GroupFiles(groups, STYLES[s], ReaddirSync(d, STYLES[s]), 1), d, s + 1)

groupIconsByName(d) == GroupStyles(<<>>, d, 1)

-----------------------------------------------------------------------------
(* processIconGroups *)

\* crypto md5 of the bytes: equal digests only for equal contents
Md5(bytes) == <<"md5", bytes>>

\* Seeded fault: a read error is swallowed and the digest of no bytes returned
getFileHashSwallow(d, unreadable, filePath) ==
    [thrown |-> FALSE,
     hash |-> IF filePath \in unreadable THEN Md5(0) ELSE Md5(ReadFileSync(d, filePath))]

\* getFileHash: throws when the file cannot be read
getFileHash(d, unreadable, filePath) ==
    IF filePath \in unreadable THEN [thrown |-> TRUE]
    ELSE [thrown |-> FALSE, hash |-> Md5(ReadFileSync(d, filePath))]

RECURSIVE HashVariants(_, _, _, _, _)
HashVariants(hashes, variants, i, d, unreadable) ==
    IF i > Len(variants) THEN [thrown |-> FALSE, hashes |-> hashes]
    ELSE LET h == getFileHash(d, unreadable, variants[i][2])
         IN IF h.thrown THEN [thrown |-> TRUE, hashes |-> hashes]
            ELSE HashVariants(Put(hashes, variants[i][1], h.hash), variants, i + 1,
                              d, unreadable)

RECURSIVE BuildHashMap(_, _, _)
BuildHashMap(hashMap, hashes, i) ==
    IF i > Len(hashes) THEN hashMap
    ELSE LET style == hashes[i][1]
             hash == hashes[i][2]
             hm == IF ~HasOwn(hashMap, hash) THEN Put(hashMap, hash, <<>>) ELSE hashMap
         IN BuildHashMap(Put(hm, hash, Append(Get(hm, hash), style)), hashes, i + 1)

\* Seeded fault: g.length > 0
DuplicateClustersAny(hashMap) == SelectSeq(Values(hashMap), LAMBDA g : Len(g) > 0)

\* Object.values(hashMap).filter(g => g.length > 1)
DuplicateClusters(hashMap) == SelectSeq(Values(hashMap), LAMBDA g : Len(g) > 1)

\* Array.prototype.sort() without a comparator orders strings by UTF-16 code
\* units: "filled" < "outlined" < "round" < "sharp".
CodeUnitRank == [s \in StyleSet |->
    CASE s = "filled" -> 1 [] s = "outlined" -> 2 [] s = "round" -> 3 [] s = "sharp" -> 4]

SortStyles(cluster) ==
    [i \in DOMAIN cluster |->
        CHOOSE x \in Range(cluster) :
            Cardinality({y \in Range(cluster) : CodeUnitRank[y] < CodeUnitRank[x]}) = i - 1]

\* Seeded fault: the first style of the cluster, unsorted
ChooseKeepUnsorted(cluster) ==
    IF Includes(cluster, "outlined") THEN "outlined" ELSE cluster[1]

\* keep = cluster.includes("outlined") ? "outlined" : cluster.sort()[0]
ChooseKeep(cluster) ==
    IF Includes(cluster, "outlined") THEN "outlined" ELSE SortStyles(cluster)[1]

\* cluster.filter(style => style !== keep); sort() has reordered the cluster in
\* place when it was called
ChooseRemove(cluster) ==
    LET after == IF Includes(cluster, "outlined") THEN cluster ELSE SortStyles(cluster)
        keep == ChooseKeep(cluster)
    IN SelectSeq(after, LAMBDA style : style # keep)

\* Seeded fault: one per cluster
AddRemovedOne(total, remove) == total + 1

\* totalFilesRemoved += remove.length
AddRemoved(total, remove) == total + Len(remove)

RECURSIVE CountEach(_, _, _)
CountEach(perStyle, remove, i) ==
    IF i > Len(remove) THEN perStyle
    ELSE CountEach([perStyle EXCEPT ![remove[i]] = @ + 1], remove, i + 1)

RECURSIVE ResolveClusters(_, _, _, _)
ResolveClusters(st, iconName, clusters, i) ==
    IF i > Len(clusters) THEN st
    ELSE LET keep == ChooseKeep(clusters[i])
             remove == ChooseRemove(clusters[i])
             entry == Get(st.report, iconName)
         IN ResolveClusters(
              [st EXCEPT
                 !.report = PutName(st.report, iconName,
                                    [keep |-> Append(entry.keep, keep),
                                     remove |-> entry.remove \o remove]),
                 !.totalFilesRemoved = AddRemoved(@, remove),
                 !.removedPerStyle = CountEach(@, remove, 1)],
              iconName, clusters, i + 1)

\* The body of the loop over Object.entries(iconGroups) for one icon
ResolveIcon(st, iconName, variants, d, unreadable) ==
    LET st1 == [st EXCEPT !.totalIcons = @ + 1, !.visited = Append(@, iconName)]
        h == HashVariants(<<>>, variants, 1, d, unreadable)
        hashMap == BuildHashMap(<<>>, h.hashes, 1)
        duplicateClusters == DuplicateClusters(hashMap)
    IN IF h.thrown THEN [st1 EXCEPT !.thrown = TRUE]
       ELSE IF Len(duplicateClusters) > 0
       THEN ResolveClusters(
              [st1 EXCEPT !.report = PutName(@, iconName, [keep |-> <<>>, remove |-> <<>>]),
                          !.totalIconsAffected = @ + 1],
              iconName, duplicateClusters, 1)
       ELSE st1

RECURSIVE ResolveIcons(_, _, _, _, _)
ResolveIcons(st, iconGroups, i, d, unreadable) ==
    IF i > Len(iconGroups) \/ st.thrown THEN st
    ELSE ResolveIcons(ResolveIcon(st, iconGroups[i][1], iconGroups[i][2], d, unreadable),
                      iconGroups, i + 1, d, unreadable)

\* processIconGroups up to, not including, the write of the report
processIconGroups(d, unreadable) ==
    ResolveIcons([report |-> <<>>, totalIcons |-> 0, totalIconsAffected |-> 0,
                  totalFilesRemoved |-> 0, removedPerStyle |-> [s \in StyleSet |-> 0],
                  thrown |-> FALSE, visited |-> <<>>],
                 groupIconsByName(d), 1, d, unreadable)

-----------------------------------------------------------------------------
(* JSON *)

\* JSON.stringify(object): the members in OwnPropertyKeys order
JSONStringify(o) == [i \in DOMAIN o |-> [key |-> o[i][1], value |-> o[i][2]]]

RECURSIVE ParseMembers(_, _, _)
ParseMembers(o, text, i) ==
    IF i > Len(text) THEN o
    ELSE ParseMembers(PutName(o, text[i].key, text[i].value), text, i + 1)

\* JSON.parse(text) of an object
JSONParse(text) == ParseMembers(<<>>, text, 1)

\* Seeded fault: the report is appended to the file
WriteFileAppend(file, report) == [exists |-> TRUE, text |-> file.text \o JSONStringify(report)]

\* fs.writeFileSync(path, JSON.stringify(report, null, 2)): the file is replaced
WriteFileSync(file, report) == [exists |-> TRUE, text |-> JSONStringify(report)]

-----------------------------------------------------------------------------
(* deleteFilesByHashReport *)

IsArray(entry) == DOMAIN entry = {"items"}

RECURSIVE DeleteStyles(_, _, _, _)
DeleteStyles(d, iconName, remove, i) ==
    IF i > Len(remove) THEN d
    ELSE LET filePath == <<remove[i], Append(iconName, DotSvg)>>
         IN DeleteStyles(IF ExistsSync(d, filePath) THEN UnlinkSync(d, filePath) ELSE d,
                         iconName, remove, i + 1)

\* Seeded fault: only the first Decision of an entry applied
DeleteGroupsFirst(d, iconName, groups, i) ==
    IF groups = <<>> THEN d ELSE DeleteStyles(d, iconName, groups[1].remove, 1)

\* for (const group of groups)
RECURSIVE DeleteGroups(_, _, _, _)
DeleteGroups(d, iconName, groups, i) ==
    IF i > Len(groups) THEN d
    ELSE DeleteGroups(DeleteStyles(d, iconName, groups[i].remove, 1), iconName, groups, i + 1)

RECURSIVE DeleteEntries(_, _, _)
DeleteEntries(d, report, i) ==
    IF i > Len(report) THEN d
    ELSE LET entry == report[i][2]
             groups == IF IsArray(entry) THEN entry.items ELSE <<entry>>
         IN DeleteEntries(DeleteGroups(d, report[i][1], groups, 1), report, i + 1)

\* The tree deleteFilesByHashReport leaves
deleteFilesByHashReport(d, file) ==
    IF ~file.exists THEN d ELSE DeleteEntries(d, JSONParse(file.text), 1)

-----------------------------------------------------------------------------
(* processVisualDeduplication *)

NoFault == [kind |-> "none"]

\* sharp(svg).resize(64, 64).png(): the bitmap is a function of the bytes
Render(bytes) == <<"png", bytes>>

\* renderSvgToPng: throws when the file cannot be read or rendered
renderSvgToPng(d, fault, svgPath) ==
    IF fault = [kind |-> "render", path |-> svgPath] THEN [thrown |-> TRUE]
    ELSE [thrown |-> FALSE, png |-> Render(ReadFileSync(d, svgPath))]

\* looksSame(a, b, {strict: true}): equal bitmaps are equal; `same` is the
\* oracle's answer for two different bitmaps of an icon
LooksSame(same, iconName, a, b) == a = b \/ <<iconName, {a[2], b[2]}>> \in same

\* visuallyCompare: throws when the comparator fails on this pair
visuallyCompare(same, fault, iconName, styleA, styleB, pngA, pngB) ==
    IF fault = [kind |-> "compare", icon |-> iconName, a |-> styleA, b |-> styleB]
    THEN [thrown |-> TRUE]
    ELSE [thrown |-> FALSE, equal |-> LooksSame(same, iconName, pngA, pngB)]

RECURSIVE RenderStyles(_, _, _, _, _)
RenderStyles(pngPaths, styleEntries, i, d, fault) ==
    IF i > Len(styleEntries) THEN [thrown |-> FALSE, pngPaths |-> pngPaths]
    ELSE LET r == renderSvgToPng(d, fault, styleEntries[i][2])
         IN IF r.thrown THEN [thrown |-> TRUE, pngPaths |-> pngPaths]
            ELSE RenderStyles(Put(pngPaths, styleEntries[i][1], r.png), styleEntries,
                              i + 1, d, fault)

\* Set.prototype.add on a set kept in insertion order
SetAdd(s, x) == IF Includes(s, x) THEN s ELSE Append(s, x)

\* The body of the two nested loops for the pair (i, j)
ComparePair(vd, iconName, styleEntries, pngPaths, i, j, same, fault) ==
    LET styleA == styleEntries[i][1]
        styleB == styleEntries[j][1]
        c == visuallyCompare(same, fault, iconName, styleA, styleB,
                             Get(pngPaths, styleA), Get(pngPaths, styleB))
        m1 == IF ~HasOwn(vd.map, styleA) THEN Put(vd.map, styleA, <<>>) ELSE vd.map
        m2 == IF ~HasOwn(m1, styleB) THEN Put(m1, styleB, <<>>) ELSE m1
        m3 == Put(m2, styleA, SetAdd(Get(m2, styleA), styleB))
        m4 == Put(m3, styleB, SetAdd(Get(m3, styleB), styleA))
    IN IF c.thrown THEN [vd EXCEPT !.thrown = TRUE]
       ELSE IF c.equal THEN [vd EXCEPT !.map = m4]
       ELSE vd

RECURSIVE ComparePairs(_, _, _, _, _, _, _, _)
ComparePairs(vd, iconName, styleEntries, pngPaths, i, j, same, fault) ==
    IF vd.thrown \/ i > Len(styleEntries) THEN vd
    ELSE IF j > Len(styleEntries)
    THEN ComparePairs(vd, iconName, styleEntries, pngPaths, i + 1, i + 2, same, fault)
    ELSE ComparePairs(ComparePair(vd, iconName, styleEntries, pngPaths, i, j, same, fault),
                      iconName, styleEntries, pngPaths, i, j + 1, same, fault)

RECURSIVE AddAll(_, _, _)
AddAll(s, xs, i) == IF i > Len(xs) THEN s ELSE AddAll(SetAdd(s, xs[i]), xs, i + 1)

RECURSIVE AddAllSets(_, _, _)
AddAllSets(s, sets, i) ==
    IF i > Len(sets) THEN s ELSE AddAllSets(AddAll(s, sets[i], 1), sets, i + 1)

\* Seeded fault: the first style and the styles equal to it
AllInvolvedOfFirst(visualDuplicates) ==
    AddAll(<<visualDuplicates[1][1]>>, visualDuplicates[1][2], 1)

\* new Set([...visualDuplicates.keys()]) and then every member of every value
AllInvolved(visualDuplicates) ==
    AddAllSets(AddAll(<<>>, Keys(visualDuplicates), 1), Values(visualDuplicates), 1)

RECURSIVE TallyVisual(_, _, _)
TallyVisual(st, remove, i) ==
    IF i > Len(remove) THEN st
    ELSE TallyVisual(
           IF remove[i] \in DOMAIN st.removalByStyle
           THEN [st EXCEPT !.removalByStyle[remove[i]] = @ + 1,
                           !.totalFilesToRemove = @ + 1]
           ELSE st,
           remove, i + 1)

\* The body of the loop over Object.entries(iconGroups) for one icon
VisualIcon(st, iconName, styles, d, same, fault) ==
    LET st1 == [st EXCEPT !.totalIcons = @ + 1, !.visited = Append(@, iconName)]
        styleEntries == styles
        r == RenderStyles(<<>>, styleEntries, 1, d, fault)
        vd == ComparePairs([thrown |-> FALSE, map |-> <<>>], iconName, styleEntries,
                           r.pngPaths, 1, 2, same, fault)
        cluster == AllInvolved(vd.map)
        keep == ChooseKeep(cluster)
        remove == ChooseRemove(cluster)
    IN IF Len(styleEntries) < 2 THEN st1
       ELSE IF r.thrown \/ vd.thrown THEN [st1 EXCEPT !.thrown = TRUE]
       ELSE IF Len(vd.map) > 0
       THEN [TallyVisual([st1 EXCEPT !.iconsWithDuplicates = @ + 1], remove, 1)
               EXCEPT !.report = PutName(@, iconName, [keep |-> keep, remove |-> remove])]
       ELSE st1

RECURSIVE VisualIcons(_, _, _, _, _, _)
VisualIcons(st, iconGroups, i, d, same, fault) ==
    IF i > Len(iconGroups) \/ st.thrown THEN st
    ELSE VisualIcons(VisualIcon(st, iconGroups[i][1], iconGroups[i][2], d, same, fault),
                     iconGroups, i + 1, d, same, fault)

\* processVisualDeduplication up to, not including, the write of the report
processVisualDeduplication(d, same, fault) ==
    VisualIcons([report |-> <<>>, totalIcons |-> 0, iconsWithDuplicates |-> 0,
                 totalFilesToRemove |-> 0, removalByStyle |-> [s \in StyleSet |-> 0],
                 thrown |-> FALSE, visited |-> <<>>],
                groupIconsByName(d), 1, d, same, fault)

-----------------------------------------------------------------------------
(* deleteFilesByVisualReport *)

RECURSIVE DeleteVisualEntries(_, _, _)
DeleteVisualEntries(d, report, i) ==
    IF i > Len(report) THEN d
    ELSE DeleteVisualEntries(DeleteStyles(d, report[i][1], report[i][2].remove, 1),
                             report, i + 1)

\* The tree deleteFilesByVisualReport leaves
deleteFilesByVisualReport(d, file) ==
    IF ~file.exists THEN d ELSE DeleteVisualEntries(d, JSONParse(file.text), 1)

-----------------------------------------------------------------------------
(* The trees the scripts may be started on *)

\* The scripts compare only files of one icon, and only for equality: the
\* contents are numbered per icon, the first style of an icon holds content 1,
\* and a later style holds a content already seen or the next new one.
Canonical(P, c) ==
    \A p \in P :
        \/ c[p] = 1
        \/ \E q \in P : /\ q[2] = p[2]
                         /\ StyleIndex(q[1]) < StyleIndex(p[1])
                         /\ c[q] >= c[p] - 1

InOrder(S) == SelectSeq(NameOrder, LAMBDA f : f \in S)

FilesOf(P, s) == {p[2] : p \in {q \in P : q[1] = s}}

\* A style directory without files is absent; readdir lists in name order.
TreeOf(P, c) ==
    [s \in StyleSet |->
        IF FilesOf(P, s) = {} THEN NoDir
        ELSE [exists |-> TRUE,
              entries |-> [i \in DOMAIN InOrder(FilesOf(P, s)) |->
                             [name |-> InOrder(FilesOf(P, s))[i],
                              bytes |-> c[<<s, InOrder(FilesOf(P, s))[i]>>]]]]]

TreesOver(names) ==
    UNION {{TreeOf(P, c) : c \in {x \in [P -> Contents] : Canonical(P, x)}} :
           P \in {Q \in SUBSET (StyleSet \X names) : Cardinality(Q) <= MaxFiles}}

\* The pairs of files of one icon in two styles, in the order of STYLES
VariantPairs(d) ==
    {pq \in AllFiles(d) \X AllFiles(d) :
        pq[1][2] = pq[2][2] /\ StyleIndex(pq[1][1]) < StyleIndex(pq[2][1])}

\* The pairs of different bitmaps the oracle can be asked about on tree d
ContentPairs(d) ==
    {<<Basename(pq[1][2], DotSvg), {ReadFileSync(d, pq[1]), ReadFileSync(d, pq[2])}>> :
        pq \in {x \in VariantPairs(d) : ReadFileSync(d, x[1]) # ReadFileSync(d, x[2])}}

\* The faults a visual run can meet on tree d
Faults(d) ==
    {[kind |-> "render", path |-> p] : p \in AllFiles(d)}
    \cup {[kind |-> "compare", icon |-> Basename(pq[1][2], DotSvg),
           a |-> pq[1][1], b |-> pq[2][1]] : pq \in VariantPairs(d)}

\* The icon whose file or comparison the fault hits
FaultIcon(fault) ==
    IF fault.kind = "render" THEN Basename(fault.path[2], DotSvg) ELSE fault.icon

-----------------------------------------------------------------------------
(* The pipelines: a resolver, then its deletion pass.  The two resolvers are *)
(* alternative strategies over one tree; `pipeline` is the one in use.       *)

\* The stage after a completed resolver run, and after a deletion pass
AfterRun(st) == IF st \in {"reported", "reported twice"} THEN "reported twice" ELSE "reported"

AfterDelete(st) ==
    CASE st = "start" -> "start"
      [] st \in {"reported", "reported twice"} -> "deleted"
      [] OTHER -> "deleted twice"

InitOver(names) ==
    /\ dirs \in TreesOver(names)
    /\ pipeline \in {"exact", "visual"}
    /\ reportFile = NoFile
    /\ visualFile = NoFile
    /\ out = [op |-> "none"]
    /\ stage = "start"
    /\ treeAtRun = dirs
    /\ page = <<>>

Init == InitOver({<<"add", ".svg">>, <<"360", ".svg">>})

\* node dedup script: processIconGroups(), with the files that cannot be read
ProcessIconGroups ==
    /\ pipeline = "exact"
    /\ \E unreadable \in {{}} \cup {{p} : p \in AllFiles(dirs)} :
       \E r \in {processIconGroups(dirs, unreadable)} :
           IF r.thrown
           THEN /\ out' = [op |-> "dedup", status |-> "aborted", visited |-> r.visited,
                           faultIcon |-> {Basename(p[2], DotSvg) : p \in unreadable}]
                /\ UNCHANGED <<dirs, reportFile, stage, treeAtRun>>
           ELSE /\ reportFile' = WriteFileSync(reportFile, r.report)
                /\ out' = [op |-> "dedup", status |-> "done", visited |-> r.visited,
                           faultIcon |-> {Basename(p[2], DotSvg) : p \in unreadable},
                           totalIcons |-> r.totalIcons,
                           totalIconsAffected |-> r.totalIconsAffected,
                           totalFilesRemoved |-> r.totalFilesRemoved,
                           removedPerStyle |-> r.removedPerStyle]
                /\ stage' = AfterRun(stage)
                /\ treeAtRun' = dirs
                /\ UNCHANGED dirs
    /\ UNCHANGED <<visualFile, pipeline, page>>

\* node delete script: deleteFilesByHashReport("./dedup-report.json")
DeleteFilesByHashReport ==
    /\ pipeline = "exact"
    /\ dirs' = deleteFilesByHashReport(dirs, reportFile)
    /\ out' = [op |-> "delete", found |-> reportFile.exists,
               totalDeleted |-> Cardinality(AllFiles(dirs)) - Cardinality(AllFiles(dirs'))]
    /\ stage' = AfterDelete(stage)
    /\ UNCHANGED <<reportFile, visualFile, pipeline, treeAtRun, page>>

\* node visual script: processVisualDeduplication(), with the oracle's answers
\* and the fault it meets.  An aborted run prints and writes nothing, so the
\* oracle's answers before the fault are not observable.  The script is run
\* once on a tree; it is run again after the deletion pass has changed the tree.
ProcessVisualDeduplication ==
    /\ pipeline = "visual"
    /\ stage \notin {"reported", "reported twice"}
    /\ \E fault \in {NoFault} \cup Faults(dirs) :
       \E same \in (IF fault = NoFault THEN SUBSET ContentPairs(dirs) ELSE {{}}) :
       \E r \in {processVisualDeduplication(dirs, same, fault)} :
           IF r.thrown
           THEN /\ out' = [op |-> "visual", status |-> "aborted", visited |-> r.visited,
                           faultIcon |-> {FaultIcon(fault)}]
                /\ UNCHANGED <<dirs, visualFile, stage, treeAtRun>>
           ELSE /\ visualFile' = WriteFileSync(visualFile, r.report)
                /\ out' = [op |-> "visual", status |-> "done", visited |-> r.visited,
                           faultIcon |-> IF fault = NoFault THEN {} ELSE {FaultIcon(fault)},
                           same |-> same,
                           totalIcons |-> r.totalIcons,
                           iconsWithDuplicates |-> r.iconsWithDuplicates,
                           totalFilesToRemove |-> r.totalFilesToRemove,
                           removalByStyle |-> r.removalByStyle]
                /\ stage' = AfterRun(stage)
                /\ treeAtRun' = dirs
                /\ UNCHANGED dirs
    /\ UNCHANGED <<reportFile, pipeline, page>>

\* node delete script: deleteFilesByVisualReport("./visual-dedup-report.json")
DeleteFilesByVisualReport ==
    /\ pipeline = "visual"
    /\ dirs' = deleteFilesByVisualReport(dirs, visualFile)
    /\ out' = [op |-> "delete", found |-> visualFile.exists,
               totalDeleted |-> Cardinality(AllFiles(dirs)) - Cardinality(AllFiles(dirs'))]
    /\ stage' = AfterDelete(stage)
    /\ UNCHANGED <<reportFile, visualFile, pipeline, treeAtRun, page>>

Next ==
    \/ ProcessIconGroups
    \/ DeleteFilesByHashReport
    \/ ProcessVisualDeduplication
    \/ DeleteFilesByVisualReport

Spec == Init /\ [][Next]_vars

\* The pipelines on trees that also hold an icon whose name is a property every
\* JavaScript object inherits
InitProto == InitOver({<<"add", ".svg">>, <<"constructor", ".svg">>})

SpecProto == InitProto /\ [][Next]_vars

-----------------------------------------------------------------------------
(* The deletion passes on reports written by hand or by another producer *)

\* Names without contents of their own: the passes never read a file
PlainTree(P) == TreeOf(P, [p \in P |-> 1])

RECURSIVE SeqsUpTo(_, _)
SeqsUpTo(S, n) ==
    IF n = 0 THEN {<<>>}
    ELSE SeqsUpTo(S, n - 1) \cup
         {Append(q, x) : q \in {r \in SeqsUpTo(S, n - 1) : Len(r) = n - 1}, x \in S}

\* remove lists: a style, and a list with a style that has no directory
RemoveLists == {<<"filled">>, <<"twotone", "sharp", "filled">>}

Decisions == {[keep |-> <<"outlined">>, remove |-> r] : r \in RemoveLists}

\* An entry of the exact report: one Decision or an array of Decisions
HashEntries == Decisions \cup {[items |-> q] : q \in SeqsUpTo(Decisions, MaxItems)}

VisualEntries == {[keep |-> "outlined", remove |-> r] : r \in RemoveLists}

\* The JSON texts with at most one member per icon name
TextsOver(entries) ==
    UNION {{[i \in DOMAIN ks |-> [key |-> ks[i], value |-> f[ks[i]]]] :
                   f \in [Range(ks) -> entries]} :
                ks \in {<<>>, << <<"add">> >>, << <<"360">> >>, << <<"add">>, <<"360">> >>}}

InitDelete ==
    /\ dirs \in {PlainTree(P) :
                    P \in {Q \in SUBSET (StyleSet \X {<<"add", ".svg">>, <<"360", ".svg">>}) :
                             Cardinality(Q) <= MaxFiles}}
    /\ pipeline \in {"exact", "visual"}
    /\ reportFile \in IF pipeline = "exact"
                      THEN {NoFile} \cup {[exists |-> TRUE, text |-> t] :
                                             t \in TextsOver(HashEntries)}
                      ELSE {NoFile}
    /\ visualFile \in IF pipeline = "visual"
                      THEN {NoFile} \cup {[exists |-> TRUE, text |-> t] :
                                             t \in TextsOver(VisualEntries)}
                      ELSE {NoFile}
    /\ out = [op |-> "none"]
    /\ stage = IF reportFile.exists \/ visualFile.exists THEN "reported" ELSE "start"
    /\ treeAtRun = dirs
    /\ page = <<>>

NextDelete ==
    \/ DeleteFilesByHashReport
    \/ DeleteFilesByVisualReport

SpecDelete == InitDelete /\ [][NextDelete]_vars

-----------------------------------------------------------------------------
(* groupIconsByName alone, under every order readdirSync may list a directory *)

\* A call of groupIconsByName()
GroupIconsByName ==
    /\ out' = [op |-> "group", groups |-> groupIconsByName(dirs),
               relisted |-> out.op = "group" /\ dirs # treeAtRun]
    /\ treeAtRun' = dirs
    /\ UNCHANGED <<dirs, reportFile, visualFile, pipeline, stage, page>>

\* The file system lists a directory in another order; the files are the same
Relist ==
    /\ \E s \in StyleSet :
          /\ DirExists(dirs, s)
          /\ \E q \in Perms(Range(dirs[s].entries)) \ {dirs[s].entries} :
                dirs' = [dirs EXCEPT ![s].entries = q]
    /\ UNCHANGED <<reportFile, visualFile, pipeline, out, stage, treeAtRun, page>>

\* Trees with files that are not .svg, with missing and with empty directories
InitGrouper ==
    /\ \E P \in {Q \in SUBSET (StyleSet \X FileNames) : Cardinality(Q) <= MaxListed} :
       \E e \in {"none"} \cup {s \in StyleSet : FilesOf(P, s) = {}} :
          dirs = IF e = "none" THEN PlainTree(P)
                 ELSE [PlainTree(P) EXCEPT ![e] = [exists |-> TRUE, entries |-> <<>>]]
    /\ pipeline = "exact"
    /\ reportFile = NoFile
    /\ visualFile = NoFile
    /\ out = [op |-> "none"]
    /\ stage = "start"
    /\ treeAtRun = dirs
    /\ page = <<>>

NextGrouper ==
    \/ GroupIconsByName
    \/ Relist

SpecGrouper == InitGrouper /\ [][NextGrouper]_vars

-----------------------------------------------------------------------------
(* The marking consumer: code.js of the design-tool plugin.  A name there is *)
(* the sequence of its characters.                                            *)

UpperCase == <<"A", "B", "C", "D", "E", "F", "G", "H", "I", "J", "K", "L", "M",
               "N", "O", "P", "Q", "R", "S", "T", "U", "V", "W", "X", "Y", "Z">>

LowerCase == <<"a", "b", "c", "d", "e", "f", "g", "h", "i", "j", "k", "l", "m",
               "n", "o", "p", "q", "r", "s", "t", "u", "v", "w", "x", "y", "z">>

Digits == {"0", "1", "2", "3", "4", "5", "6", "7", "8", "9"}

\* The warning sign and its variation selector, two code units
Warning == <<"U+26A0", "U+FE0F">>

LineTerminators == {"LF", "CR", "U+2028", "U+2029"}

LowerOf == [ch \in Range(UpperCase) |->
               LowerCase[CHOOSE k \in DOMAIN UpperCase : UpperCase[k] = ch]]

\* String.prototype.toLowerCase
ToLowerCase(str) ==
    [i \in DOMAIN str |-> IF str[i] \in DOMAIN LowerOf THEN LowerOf[str[i]] ELSE str[i]]

\* [a-z0-9_] and [a-z0-9]
NameChars == Range(LowerCase) \cup Digits \cup {"_"}

StyleChars == Range(LowerCase) \cup Digits

StartsAt(str, sub, i) ==
    i + Len(sub) - 1 <= Len(str) /\ SubSeq(str, i, i + Len(sub) - 1) = sub

\* String.prototype.includes
IncludesString(str, sub) == \E i \in 1..Len(str) : StartsAt(str, sub, i)

\* str.replace(/sub/g, "")
RECURSIVE RemoveAll(_, _, _)
RemoveAll(str, sub, i) ==
    IF i > Len(str) THEN <<>>
    ELSE IF StartsAt(str, sub, i) THEN RemoveAll(str, sub, i + Len(sub))
    ELSE <<str[i]>> \o RemoveAll(str, sub, i + 1)

\* str.replace(/[^...]/g, "") for the class of the characters kept
KeepOnly(str, class) == SelectSeq(str, LAMBDA ch : ch \in class)

RECURSIVE TrimStart(_)
TrimStart(str) ==
    IF str # <<>> /\ Head(str) = " " THEN TrimStart(Tail(str)) ELSE str

RECURSIVE TrimEnd(_)
TrimEnd(str) ==
    IF str # <<>> /\ str[Len(str)] = " " THEN TrimEnd(SubSeq(str, 1, Len(str) - 1)) ELSE str

\* String.prototype.trim
Trim(str) == TrimEnd(TrimStart(str))

normalizeName(name) ==
    Trim(KeepOnly(RemoveAll(ToLowerCase(name), Warning, 1), NameChars))

StyleEquals == <<"S", "t", "y", "l", "e", "=">>

\* variantName.match(/Style=(.+)/): the index of the leftmost match, 0 for none
MatchIndex(variantName) ==
    LET hits == {i \in 1..Len(variantName) :
                    /\ StartsAt(variantName, StyleEquals, i)
                    /\ i + Len(StyleEquals) <= Len(variantName)
                    /\ variantName[i + Len(StyleEquals)] \notin LineTerminators}
    IN IF hits = {} THEN 0 ELSE CHOOSE i \in hits : \A j \in hits : i <= j

\* match[1]: the characters after "Style=" up to the end of the line
RECURSIVE UpToLineEnd(_, _)
UpToLineEnd(str, i) ==
    IF i > Len(str) \/ str[i] \in LineTerminators THEN <<>>
    ELSE <<str[i]>> \o UpToLineEnd(str, i + 1)

extractStyleFromVariantName(variantName) ==
    LET m == MatchIndex(variantName)
    IN IF m # 0
       THEN KeepOnly(ToLowerCase(UpToLineEnd(variantName, m + Len(StyleEquals))), StyleChars)
       ELSE KeepOnly(ToLowerCase(variantName), StyleChars)

Red == [type |-> "SOLID", color |-> [r |-> 1, g |-> 0, b |-> 0], opacity |-> 1]

\* The variant after markVariantForDeletion; strokeFails: the assignment to
\* variant.strokes throws and is caught
markVariantForDeletion(variant, strokeFails) ==
    LET named == IF ~IncludesString(variant.name, Warning)
                 THEN [variant EXCEPT !.name = @ \o <<" ">> \o Warning]
                 ELSE variant
    IN IF strokeFails THEN [node |-> named, ok |-> FALSE]
       ELSE [node |-> [named EXCEPT !.strokes = <<Red>>,
                                    !.strokeWeight = 3,
                                    !.strokeAlign = "OUTSIDE"],
             ok |-> TRUE]

TwoTone == <<"t", "w", "o", "t", "o", "n", "e">>

\* Seeded fault: the two-tone rule left out
ShouldMarkByReport(report, iconName, styleName) ==
    /\ Truthy(report, iconName)
    /\ LET remove == IF HasOwn(report, iconName)
                        /\ "remove" \in DOMAIN Get(report, iconName)
                     THEN Get(report, iconName).remove ELSE <<>>
       IN Includes([i \in DOMAIN remove |-> ToLowerCase(remove[i])], styleName)

\* shouldMark of the loop body; an inherited report[iconName] has no remove
ShouldMark(report, iconName, styleName) ==
    IF styleName = TwoTone THEN TRUE
    ELSE /\ Truthy(report, iconName)
         /\ LET remove == IF HasOwn(report, iconName)
                             /\ "remove" \in DOMAIN Get(report, iconName)
                          THEN Get(report, iconName).remove ELSE <<>>
            IN Includes([i \in DOMAIN remove |-> ToLowerCase(remove[i])], styleName)

\* The loop over the variants of one component set
RECURSIVE MarkVariants(_, _, _, _, _, _)
MarkVariants(st, report, n, iconName, j, failing) ==
    IF j > Len(st.page[n].children) THEN st
    ELSE LET child == st.page[n].children[j]
         IN IF child.type # "COMPONENT"
            THEN MarkVariants(st, report, n, iconName, j + 1, failing)
            ELSE IF ~ShouldMark(report, iconName, extractStyleFromVariantName(child.name))
            THEN MarkVariants(st, report, n, iconName, j + 1, failing)
            ELSE LET r == markVariantForDeletion(child, <<n, j>> \in failing)
                 IN MarkVariants(
                      [page |-> [st.page EXCEPT ![n].children[j] = r.node],
                       flagged |-> st.flagged \cup {<<n, j>>},
                       markedCount |-> IF r.ok THEN st.markedCount + 1
                                       ELSE st.markedCount],
                      report, n, iconName, j + 1, failing)

\* The loop over figma.currentPage.findAll(node => node.type === "COMPONENT_SET")
RECURSIVE MarkSets(_, _, _, _)
MarkSets(st, report, n, failing) ==
    IF n > Len(st.page) THEN st
    ELSE IF st.page[n].type # "COMPONENT_SET" THEN MarkSets(st, report, n + 1, failing)
    ELSE MarkSets(MarkVariants(st, report, n, normalizeName(st.page[n].name), 1, failing),
                  report, n + 1, failing)

\* The 'load-json' branch of figma.ui.onmessage
loadJson(pg, content, failing) ==
    MarkSets([page |-> pg, flagged |-> {}, markedCount |-> 0], JSONParse(content), 1, failing)

(* The pages and the reports the plugin is run on *)

Node(type, name, children) ==
    [type |-> type, name |-> name, children |-> children,
     strokes |-> <<>>, strokeWeight |-> 1, strokeAlign |-> "INSIDE"]

\* "Style=Filled", "Style=Two Tone", "Two-Tone", and a frame named "Style=Filled"
ChildOrder ==
    << Node("COMPONENT", StyleEquals \o <<"F", "i", "l", "l", "e", "d">>, <<>>),
       Node("COMPONENT", StyleEquals \o <<"T", "w", "o", " ", "T", "o", "n", "e">>, <<>>),
       Node("COMPONENT", <<"T", "w", "o", "-", "T", "o", "n", "e">>, <<>>),
       Node("FRAME", StyleEquals \o <<"F", "i", "l", "l", "e", "d">>, <<>>) >>

ChildLists ==
    {SelectSeq(ChildOrder, LAMBDA c : c \in S) :
        S \in {T \in SUBSET Range(ChildOrder) : Cardinality(T) <= MaxChildren}}

\* A page: a frame, then the component sets "Ad-d" and "360"
Pages ==
    {<< Node("FRAME", <<"A", "d", "d">>, <<>>),
        Node("COMPONENT_SET", <<"A", "d", "-", "d">>, c1),
        Node("COMPONENT_SET", <<"3", "6", "0">>, c2) >> :
        c1 \in ChildLists, c2 \in ChildLists}

\* The report texts: "add" without entry, with remove ["Filled"], or with an
\* entry that has no remove; "360" without entry or with remove ["filled",
\* "twotone"]
MarkerTexts ==
    {a \o b :
        a \in {<<>>,
               <<[key |-> <<"a", "d", "d">>,
                  value |-> [keep |-> <<"outlined">>,
                             remove |-> << <<"F", "i", "l", "l", "e", "d">> >>]]>>,
               <<[key |-> <<"a", "d", "d">>, value |-> [keep |-> <<"outlined">>]]>>},
        b \in {<<>>,
               <<[key |-> <<"3", "6", "0">>,
                  value |-> [keep |-> <<"outlined">>,
                             remove |-> << <<"f", "i", "l", "l", "e", "d">>, TwoTone >>]]>>}}

\* The variants of the page
Variants(pg) ==
    {nj \in (DOMAIN pg) \X (1..Len(ChildOrder)) :
        /\ pg[nj[1]].type = "COMPONENT_SET"
        /\ nj[2] \in DOMAIN pg[nj[1]].children
        /\ pg[nj[1]].children[nj[2]].type = "COMPONENT"}

\* figma.ui.onmessage(msg); the strokes of the page can be set, or the
\* assignment throws for every node (a page that cannot be edited)
OnMessage ==
    /\ \E type \in {"load-json", "cancel"} :
          IF type = "load-json"
          THEN \E content \in MarkerTexts :
               \E failing \in {{}, Variants(page)} :
               \E r \in {loadJson(page, content, failing)} :
                  /\ page' = r.page
                  /\ out' = [op |-> "mark", content |-> content, flagged |-> r.flagged,
                             markedCount |-> r.markedCount]
          ELSE UNCHANGED <<page, out>>
    /\ UNCHANGED <<dirs, reportFile, visualFile, pipeline, stage, treeAtRun>>

InitMarker ==
    /\ page \in Pages
    /\ dirs = [s \in StyleSet |-> NoDir]
    /\ pipeline = "visual"
    /\ reportFile = NoFile
    /\ visualFile = NoFile
    /\ out = [op |-> "none"]
    /\ stage = "start"
    /\ treeAtRun = dirs

SpecMarker == InitMarker /\ [][OnMessage]_vars

-----------------------------------------------------------------------------
(* What the claims speak of, read off the tree and the files *)

IconFile(iconName) == Append(iconName, DotSvg)

\* The icon names: the base names of the .svg files of the tree
IconNames(d) == {Basename(p[2], DotSvg) : p \in {q \in AllFiles(d) : EndsWith(q[2], DotSvg)}}

\* The icons of the Group the resolvers iterate over
GroupedIcons(d) == Range(Keys(groupIconsByName(d)))

StylesOf(d, iconName) == {s \in StyleSet : ExistsSync(d, <<s, IconFile(iconName)>>)}

Fingerprint(d, iconName, style) == Md5(ReadFileSync(d, <<style, IconFile(iconName)>>))

\* The maximal sets of two or more styles of an icon with equal fingerprints
Clusters(d, iconName) ==
    {C \in SUBSET StylesOf(d, iconName) :
        /\ Cardinality(C) >= 2
        /\ \A a, b \in C : Fingerprint(d, iconName, a) = Fingerprint(d, iconName, b)
        /\ \A a \in C, b \in StylesOf(d, iconName) \ C :
              Fingerprint(d, iconName, a) # Fingerprint(d, iconName, b)}

\* "outlined" if present, else the lexicographically smallest style
ExpectedKeep(C) ==
    IF "outlined" \in C THEN "outlined"
    ELSE CHOOSE x \in C : \A y \in C : CodeUnitRank[x] <= CodeUnitRank[y]

Count(seq, x) == Cardinality({i \in DOMAIN seq : seq[i] = x})

\* The members of a report file with a given key
Members(file, iconName) == {i \in DOMAIN file.text : file.text[i].key = iconName}

MemberKeys(file) == {file.text[i].key : i \in DOMAIN file.text}

RECURSIVE SumOver(_, _)
SumOver(f, S) ==
    IF S = {} THEN 0
    ELSE LET x == CHOOSE y \in S : TRUE IN f[x] + SumOver(f, S \ {x})

ExactDone == out.op = "dedup" /\ out.status = "done"

VisualDone == out.op = "visual" /\ out.status = "done"

\* The oracle's judgment on two styles of an icon
JudgedEqual(d, same, iconName, a, b) ==
    LooksSame(same, iconName, Render(ReadFileSync(d, <<a, IconFile(iconName)>>)),
              Render(ReadFileSync(d, <<b, IconFile(iconName)>>)))

\* The styles of an icon that take part in at least one pair judged equal
Involved(d, same, iconName) ==
    {a \in StylesOf(d, iconName) :
        \E b \in StylesOf(d, iconName) \ {a} : JudgedEqual(d, same, iconName, a, b)}

-----------------------------------------------------------------------------
(* The exact-duplicate resolver *)

\* keep and remove of the icons as the claim on the exact resolver has them
ExactKeepRemoveOver(icons) ==
    \A iconName \in icons :
        LET cl == Clusters(dirs, iconName)
            report == JSONParse(reportFile.text)
            e == IF HasOwn(report, iconName) THEN Get(report, iconName)
                 ELSE [keep |-> <<>>, remove |-> <<>>]
        IN /\ \A C \in cl :
                /\ Count(e.keep, ExpectedKeep(C)) = 1
                /\ Count(e.remove, ExpectedKeep(C)) = 0
                /\ \A s \in C \ {ExpectedKeep(C)} :
                      Count(e.remove, s) = 1 /\ Count(e.keep, s) = 0
           /\ \A s \in StyleSet \ UNION cl : Count(e.keep, s) = 0 /\ Count(e.remove, s) = 0
           /\ Range(e.keep) \cap Range(e.remove) = {}
           /\ Range(e.keep) \cup Range(e.remove) = UNION cl

\* C1: after a completed run of processIconGroups, for every icon name and
\* every Cluster of it, exactly one style of the Cluster is in the icon's keep
\* list: "outlined" if the Cluster has it, else its lexicographically smallest
\* style; the other styles of the Cluster are in remove; a style in no Cluster
\* is in neither list; keep and remove are disjoint and together are the union
\* of the Clusters.
C1_ExactKeepRemove == ExactDone => ExactKeepRemoveOver(IconNames(dirs))

\* The same for the icon names that groupIconsByName returns
C1_OverTheGroup == ExactDone => ExactKeepRemoveOver(GroupedIcons(dirs))

\* An icon with two Clusters, one of them without "outlined", has been resolved.
C1_Witness ==
    /\ ExactDone
    /\ \E iconName \in GroupedIcons(dirs) :
         /\ Cardinality(Clusters(dirs, iconName)) = 2
         /\ Len(Get(JSONParse(reportFile.text), iconName).keep) = 2

-----------------------------------------------------------------------------
(* The visual-duplicate resolver *)

\* The Decisions of the icons as the claim on the visual resolver has them
VisualKeepRemoveOver(icons) ==
    \A iconName \in {n \in icons : Cardinality(StylesOf(dirs, n)) >= 2} :
        LET inv == Involved(dirs, out.same, iconName)
            m == Members(visualFile, iconName)
        IN IF inv = {} THEN m = {}
           ELSE /\ Cardinality(m) = 1
                /\ \A i \in m :
                     LET e == visualFile.text[i].value
                     IN /\ e.keep = ExpectedKeep(inv)
                        /\ Range(e.remove) = inv \ {e.keep}
                        /\ \A s \in inv \ {e.keep} : Count(e.remove, s) = 1

\* C2: after a completed run of processVisualDeduplication, every icon name
\* with two or more styles whose involved set (the styles in at least one pair
\* the oracle judged equal) is not empty has one Decision: keep is "outlined"
\* if involved, else the lexicographically smallest involved style, and remove
\* is the rest of the involved set, whether or not a removed style was judged
\* equal to the kept one; styles in no equal pair are in neither.
C2_VisualKeepRemove == VisualDone => VisualKeepRemoveOver(IconNames(dirs))

\* The same for the icon names that groupIconsByName returns
C2_OverTheGroup == VisualDone => VisualKeepRemoveOver(GroupedIcons(dirs))

\* outlined = filled and filled = round but outlined # round: round is removed
\* though it was not judged equal to the kept outlined.
C2_Witness ==
    /\ VisualDone
    /\ \E iconName \in GroupedIcons(dirs) :
         /\ {"outlined", "filled", "round"} \subseteq StylesOf(dirs, iconName)
         /\ JudgedEqual(dirs, out.same, iconName, "outlined", "filled")
         /\ JudgedEqual(dirs, out.same, iconName, "filled", "round")
         /\ ~JudgedEqual(dirs, out.same, iconName, "outlined", "round")
         /\ \E i \in Members(visualFile, iconName) :
              /\ visualFile.text[i].value.keep = "outlined"
              /\ Includes(visualFile.text[i].value.remove, "round")

-----------------------------------------------------------------------------
(* Both resolvers *)

\* One entry for the icons with a non-trivial cluster, none for the others
EntryIffClusterOver(exactIcons, visualIcons) ==
    /\ ExactDone =>
         \A iconName \in exactIcons \cup MemberKeys(reportFile) :
            Cardinality(Members(reportFile, iconName)) =
               IF iconName \in exactIcons /\ Clusters(dirs, iconName) # {}
               THEN 1 ELSE 0
    /\ VisualDone =>
         \A iconName \in visualIcons \cup MemberKeys(visualFile) :
            Cardinality(Members(visualFile, iconName)) =
               IF iconName \in visualIcons /\ Involved(dirs, out.same, iconName) # {}
               THEN 1 ELSE 0

\* C3: after a completed run of either resolver the report holds an entry for
\* an icon name exactly when the icon has a non-trivial cluster (exact: two or
\* more styles with equal fingerprint; visual: a pair judged equal), and then
\* one entry; an icon in one style, or whose styles all differ, has none.
C3_EntryIffCluster == EntryIffClusterOver(IconNames(dirs), IconNames(dirs))

\* The same for the icon names that groupIconsByName returns
C3_OverTheGroup == EntryIffClusterOver(GroupedIcons(dirs), GroupedIcons(dirs))

\* A report without an entry for an icon whose two styles differ.
C3_Witness ==
    /\ ExactDone
    /\ \E iconName \in GroupedIcons(dirs) :
         /\ Cardinality(StylesOf(dirs, iconName)) = 2
         /\ Members(reportFile, iconName) = {}

\* The icons a run visits before and at the icon a fault hits
UpTo(keys, iconName) ==
    SubSeq(keys, 1, CHOOSE i \in DOMAIN keys : keys[i] = iconName)

\* Whether a run of the resolver `op` on tree d reads, renders or compares the
\* files of the icon
Attempted(d, op, iconName) ==
    /\ iconName \in GroupedIcons(d)
    /\ op = "visual" => Cardinality(StylesOf(d, iconName)) >= 2

\* C4: a resolver run in which reading, rendering or comparing a variant fails
\* aborts at that icon: no later icon is visited, the report file is not
\* written (it stays as it was), however many icons were resolved before; and a
\* run aborts only so.
C4_FailureIsFatal ==
    [][out'.op \in {"dedup", "visual"} =>
         IF \E iconName \in out'.faultIcon : Attempted(dirs, out'.op, iconName)
         THEN /\ out'.status = "aborted"
              /\ reportFile' = reportFile
              /\ visualFile' = visualFile
              /\ dirs' = dirs
              /\ \A iconName \in out'.faultIcon :
                    out'.visited = UpTo(Keys(groupIconsByName(dirs)), iconName)
         ELSE out'.status = "done"]_vars

\* A run aborted at the second icon after the first one, which has a Cluster,
\* was resolved; no report file exists.
C4_Witness ==
    /\ out.op = "dedup"
    /\ out.status = "aborted"
    /\ Len(out.visited) = 2
    /\ Clusters(dirs, out.visited[1]) # {}
    /\ ~reportFile.exists

\* C6: after a completed run the total printed equals the sum of the lengths of
\* the remove lists of the report written, and the sum of the per-style tallies.
C6_TotalsAgree ==
    /\ ExactDone =>
         /\ out.totalFilesRemoved =
              SumOver([i \in DOMAIN reportFile.text |-> Len(reportFile.text[i].value.remove)],
                      DOMAIN reportFile.text)
         /\ out.totalFilesRemoved = SumOver(out.removedPerStyle, StyleSet)
    /\ VisualDone =>
         /\ out.totalFilesToRemove =
              SumOver([i \in DOMAIN visualFile.text |-> Len(visualFile.text[i].value.remove)],
                      DOMAIN visualFile.text)
         /\ out.totalFilesToRemove = SumOver(out.removalByStyle, StyleSet)

\* Two icons with one removal each: the total spans both entries.
C6_Witness ==
    /\ ExactDone
    /\ Len(reportFile.text) = 2
    /\ out.totalFilesRemoved = 2

-----------------------------------------------------------------------------
(* The exact pipeline end to end *)

\* The styles whose file of the icon holds the bytes
Holders(d, iconName, bytes) ==
    {s \in StylesOf(d, iconName) : ReadFileSync(d, <<s, IconFile(iconName)>>) = bytes}

\* The styles an entry lists for removal, in either shape
EntryRemoves(entry) ==
    IF IsArray(entry) THEN UNION {Range(entry.items[j].remove) : j \in DOMAIN entry.items}
    ELSE Range(entry.remove)

\* The files the report lists for removal
Targets(file) ==
    UNION {{<<s, IconFile(file.text[i].key)>> : s \in EntryRemoves(file.text[i].value)} :
        i \in DOMAIN file.text}

\* C10: once processIconGroups has written its report for a tree and
\* deleteFilesByHashReport has applied it to that tree, for every icon name
\* each content present before is held by exactly one remaining style file,
\* files the report does not list are untouched, and processIconGroups run on
\* the resulting tree emits an empty report.
C10_EndToEnd ==
    (pipeline = "exact" /\ stage \in {"deleted", "deleted twice"}) =>
        /\ \A iconName \in IconNames(treeAtRun) :
             \A s \in StylesOf(treeAtRun, iconName) :
                Cardinality(Holders(dirs, iconName,
                    ReadFileSync(treeAtRun, <<s, IconFile(iconName)>>))) = 1
        /\ \A p \in AllFiles(treeAtRun) \ Targets(reportFile) :
             ExistsSync(dirs, p) /\ ReadFileSync(dirs, p) = ReadFileSync(treeAtRun, p)
        /\ processIconGroups(dirs, {}).report = <<>>

\* The same, for the icons that groupIconsByName returns
C10_OverTheGroup ==
    (pipeline = "exact" /\ stage \in {"deleted", "deleted twice"}) =>
        /\ \A iconName \in GroupedIcons(treeAtRun) :
             \A s \in StylesOf(treeAtRun, iconName) :
                Cardinality(Holders(dirs, iconName,
                    ReadFileSync(treeAtRun, <<s, IconFile(iconName)>>))) = 1
        /\ \A p \in AllFiles(treeAtRun) \ Targets(reportFile) :
             ExistsSync(dirs, p) /\ ReadFileSync(dirs, p) = ReadFileSync(treeAtRun, p)
        /\ processIconGroups(dirs, {}).report = <<>>

\* The report has been applied to a tree with two Clusters and files removed.
C10_Witness ==
    /\ pipeline = "exact"
    /\ stage = "deleted"
    /\ Cardinality(AllFiles(treeAtRun)) - Cardinality(AllFiles(dirs)) = 2
    /\ Len(reportFile.text) >= 1

-----------------------------------------------------------------------------
(* The deletion passes *)

-----------------------------------------------------------------------------
(* The grouper *)

\* The Group as a set of <<icon name, style, path>>
Mapping(groups) ==
    UNION {{<<groups[i][1], groups[i][2][j][1], groups[i][2][j][2]>> :
              j \in DOMAIN groups[i][2]} : i \in DOMAIN groups}

\* The files of a tree, whatever the listing order
SameFiles(d1, d2) ==
    /\ AllFiles(d1) = AllFiles(d2)
    /\ \A s \in StyleSet : DirExists(d1, s) = DirExists(d2, s)

\* C8: groupIconsByName returns the same mapping icon name -> (style -> path)
\* as its last call if the files are the same, whatever the listing orders;
\* every key maps to the path of a .svg file that is in that style's directory
\* at the scan, under its base name; a file without the .svg suffix and a
\* missing directory contribute nothing.
C8_GrouperDeterminism ==
    [][out'.op = "group" =>
         /\ (out.op = "group" /\ SameFiles(dirs, treeAtRun)) =>
               Mapping(out'.groups) = Mapping(out.groups)
         /\ \A t \in Mapping(out'.groups) :
               /\ t[3] = <<t[2], IconFile(t[1])>>
               /\ t[3][2][Len(t[3][2])] = DotSvg
               /\ DirExists(dirs, t[2])
               /\ ExistsSync(dirs, t[3])
         /\ \A i, j \in DOMAIN out'.groups : i # j => out'.groups[i][1] # out'.groups[j][1]]_vars

\* A second scan after a relisting, of a tree with two icons, a file that is not
\* .svg and a missing directory.
C8_Witness ==
    /\ out.op = "group"
    /\ out.relisted
    /\ Len(out.groups) = 2
    /\ \E s \in StyleSet : ExistsSync(dirs, <<s, <<"add", ".png">> >>)
    /\ \E s \in StyleSet : ~DirExists(dirs, s)

-----------------------------------------------------------------------------
(* The marking consumer *)

\* The members of the report text for the normalized name of a component set
EntriesFor(content, setName) ==
    {i \in DOMAIN content : content[i].key = normalizeName(setName)}

\* The entry's remove list, in lower case, contains the style
RemoveContains(entry, styleName) ==
    /\ "remove" \in DOMAIN entry
    /\ \E k \in DOMAIN entry.remove : ToLowerCase(entry.remove[k]) = styleName

\* C9: on 'load-json', a variant of a component set whose extracted style is
\* "twotone" is flagged for deletion whether or not the report has an entry for
\* the set and whatever its remove list says; any other variant is flagged if
\* and only if the report has an entry for the normalized name of its set whose
\* remove list contains (compared in lower case) the variant's extracted
\* style; a flagged variant carries the warning sign in its name, every other
\* node of the page stays as it is.
C9_MarkingRule ==
    [][out'.op = "mark" =>
         /\ out'.flagged \subseteq Variants(page)
         /\ \A v \in Variants(page) :
               LET set == page[v[1]]
                   variant == set.children[v[2]]
                   styleName == extractStyleFromVariantName(variant.name)
               IN /\ v \in out'.flagged <=>
                        \/ styleName = TwoTone
                        \/ \E i \in EntriesFor(out'.content, set.name) :
                              RemoveContains(out'.content[i].value, styleName)
                  /\ v \in out'.flagged =>
                        IncludesString(page'[v[1]].children[v[2]].name, Warning)
                  /\ v \notin out'.flagged =>
                        page'[v[1]].children[v[2]] = variant
         /\ Len(page') = Len(page)
         /\ \A n \in DOMAIN page :
               /\ page'[n].name = page[n].name
               /\ page'[n].type = page[n].type
               /\ Len(page'[n].children) = Len(page[n].children)
               /\ \A j \in DOMAIN page[n].children :
                     <<n, j>> \notin Variants(page) =>
                        page'[n].children[j] = page[n].children[j]]_vars

\* A run with a report that has no entry for "add": the two-tone variant of
\* "Ad-d", named without "Style=", is flagged; in "360", whose entry lists
\* "filled", the filled variant is flagged; the filled variant of "Ad-d" is
\* not.
C9_Witness ==
    /\ out.op = "mark"
    /\ \E n, m \in DOMAIN page :
         /\ page[n].type = "COMPONENT_SET" /\ page[m].type = "COMPONENT_SET"
         /\ EntriesFor(out.content, page[n].name) = {}
         /\ EntriesFor(out.content, page[m].name) # {}
         /\ \E j, k \in DOMAIN page[n].children :
              /\ <<n, j>> \in out.flagged
              /\ MatchIndex(page[n].children[j].name) = 0
              /\ extractStyleFromVariantName(page[n].children[j].name) = TwoTone
              /\ <<n, k>> \in Variants(page) \ out.flagged
         /\ \E j \in DOMAIN page[m].children :
              /\ <<m, j>> \in out.flagged
              /\ extractStyleFromVariantName(page[m].children[j].name) # TwoTone

====
